---- MODULE Spec2Model ----
(***************************************************************************)
(* Session/state layer of the scene editor (Editor.cpp, SceneTab.h):       *)
(* the registry of scene tabs, the identifier pool, the active-tab weak    *)
(* reference, project save/load and the per-frame update handler.          *)
(***************************************************************************)
EXTENDS Integers, Sequences, FiniteSets, TLC

VARIABLES
    sceneTabs_,        \* Editor::sceneTabs_: Vector<SharedPtr<SceneTab>>
    activeTab_,        \* Editor::activeTab_: WeakPtr<SceneTab> (0 null, -1 expired, i = sceneTabs_[i])
    idPool_,           \* Editor::idPool_: the set of identifiers currently held
    projectFilePath_,  \* Editor::projectFilePath_
    disk,              \* content of the project file the editor saves to (path "proj")
    pc,                \* position of the UI thread: Start, then the steps of OnUpdate
    lastOp,            \* what the step just taken did
    opened,            \* return values of RenderWindow in the last pass over sceneTabs_
    logged,            \* number of "unique id is already taken" errors logged by the last step
    calls,             \* calls the last step made on the pool, the registry and the tabs, in order
    docked,            \* SceneTab::placeAfter_/placePosition_ of the tabs the last step pushed
    lastCreated        \* unique title of the session created last ("" before the first one)

vars == <<sceneTabs_, activeTab_, idPool_, projectFilePath_, disk, pc, lastOp, opened, logged,
          calls, docked, lastCreated>>

----------------------------------------------------------------------------
(* Bounds *)

MaxTabs == 3      \* sessions created through the UI stop at this length
MaxBlocks == 3    \* scene blocks in a project file read from outside
MaxId == 3        \* identifiers are 1..MaxId

Ids == 1..MaxId

(* StringHash(): the value of a default-constructed identifier *)
NullID == 0

Titles == {"Scene"}

----------------------------------------------------------------------------
(* Sequences *)

Back(s) == s[Len(s)]

RemoveAt(s, i) == [k \in 1..(Len(s) - 1) |-> IF k < i THEN s[k] ELSE s[k + 1]]

RECURSIVE SeqsUpTo(_, _)
SeqsUpTo(S, n) ==
    IF n = 0 THEN {<<>>}
    ELSE LET shorter == SeqsUpTo(S, n - 1)
         IN shorter \cup {Append(s, x) : s \in {t \in shorter : Len(t) = n - 1}, x \in S}

----------------------------------------------------------------------------
(* WeakPtr<SceneTab> *)

WeakNull(w) == w = 0
WeakExpired(w) == w <= 0

(* the weak reference after the element at position i left the vector and was destroyed *)
WeakAfterErase(w, i) == IF w = i THEN -1 ELSE IF w > i THEN w - 1 ELSE w

(* the weak reference after every element of the vector was destroyed *)
WeakAfterClear(w) == IF w = 0 THEN 0 ELSE -1

----------------------------------------------------------------------------
(* IDPool (IDPool.h) *)

NewID(pool, fresh) == pool \cup {fresh}

CanTakeID(pool, id) == id \notin pool

TakeID(pool, id) == pool \cup {id}

ReleaseID(pool, id) == pool \ {id}

ClearPool(pool) == {}

----------------------------------------------------------------------------
(* SceneTab *)

UniqueTitle(tab) == tab.title \o "#" \o ToString(tab.id)

SceneTabNew(id, afterDockName, position) ==
    [id |-> id, title |-> "Scene", isActive |-> FALSE, isRendered |-> FALSE]

(* SceneTab::LoadProject: reads identifier and title from the scene element *)
TabLoadProject(tab, scene) == [tab EXCEPT !.id = scene.id, !.title = scene.title]

(* SceneTab::SaveProject: writes identifier and title to the scene element *)
TabSaveProject(tab) == [null |-> FALSE, id |-> tab.id, title |-> tab.title]

(* SceneTab::~SceneTab: the identifier goes back to the pool *)
TabDestroy(pool, tab) == ReleaseID(pool, tab.id)

RECURSIVE DestroyAll(_, _)
DestroyAll(pool, tabs) ==
    IF tabs = <<>> THEN pool ELSE DestroyAll(TabDestroy(pool, Head(tabs)), Tail(tabs))

(* SceneTab::RenderWindow: what the panel host reports for one tab in one frame. *)
(* A focused dock is a visible one (isActive_: "dock is active and window is    *)
(* focused"); a closed tab is destroyed in the same pass, its flags are not read *)
Outcomes ==
    {[open |-> o, rendered |-> r, active |-> a] :
        o \in BOOLEAN, r \in BOOLEAN, a \in BOOLEAN} \
    {x \in [open : BOOLEAN, rendered : BOOLEAN, active : BOOLEAN] :
        (x.active /\ ~x.rendered) \/ (~x.open /\ (x.rendered \/ x.active))}

RenderWindow(tab, outcome) ==
    [tab EXCEPT !.isRendered = outcome.rendered, !.isActive = outcome.active]

----------------------------------------------------------------------------
(* Project files *)

NullElement == [null |-> TRUE, id |-> NullID, title |-> ""]

SceneBlocks == [null : {FALSE}, id : Ids, title : Titles]

NoFile == [exists |-> FALSE, scenes |-> <<>>]

FileOf(blocks) == [exists |-> TRUE, scenes |-> blocks]

Contents == {NoFile} \cup {FileOf(b) : b \in SeqsUpTo(SceneBlocks, MaxBlocks)}

----------------------------------------------------------------------------
(* Editor *)

Editor(tabs, active, pool, errors) ==
    [tabs |-> tabs, active |-> active, pool |-> pool, errors |-> errors,
     calls |-> <<>>, docked |-> <<>>]

Call(op, id) == [op |-> op, id |-> id]

Dock(afterDockName, position) == [after |-> afterDockName, position |-> position]

Current == Editor(sceneTabs_, activeTab_, idPool_, 0)

(* CreateNewScene putting the new tab first instead of Push-ing it to the back *)
CreateNewSceneAtFront(ed, project, fresh) ==
    LET id == IF project.null THEN fresh ELSE NullID
        pool1 == IF project.null THEN NewID(ed.pool, fresh) ELSE ed.pool
        sceneTab == SceneTabNew(id, "Hierarchy", "Slot_Right")
    IN  IF project.null
        THEN [ed EXCEPT !.tabs = <<sceneTab>> \o ed.tabs, !.pool = pool1,
                        !.active = IF ed.active > 0 THEN ed.active + 1 ELSE ed.active]
        ELSE LET loaded == TabLoadProject(sceneTab, project)
             IN  IF CanTakeID(pool1, loaded.id)
                 THEN [ed EXCEPT !.tabs = <<loaded>> \o ed.tabs,
                                 !.pool = TakeID(pool1, loaded.id),
                                 !.active = IF ed.active > 0 THEN ed.active + 1 ELSE ed.active]
                 ELSE [ed EXCEPT !.errors = ed.errors + 1,
                                 !.pool = TabDestroy(pool1, loaded)]

(* CreateNewScene docking the new tab next to Front() instead of Back() *)
CreateNewSceneDocksAtFront(ed, project, fresh) ==
    LET id == IF project.null THEN fresh ELSE NullID
        pool1 == IF project.null THEN NewID(ed.pool, fresh) ELSE ed.pool
        dock == IF ed.tabs = <<>>
                THEN Dock("Hierarchy", "Slot_Right")
                ELSE Dock(UniqueTitle(Head(ed.tabs)), "Slot_Tab")
        sceneTab == SceneTabNew(id, dock.after, dock.position)
    IN  IF project.null
        THEN [ed EXCEPT !.tabs = Append(ed.tabs, sceneTab), !.pool = pool1,
                        !.calls = Append(ed.calls, Call("NewID", fresh)),
                        !.docked = Append(ed.docked, dock)]
        ELSE LET loaded == TabLoadProject(sceneTab, project)
             IN  IF CanTakeID(pool1, loaded.id)
                 THEN [ed EXCEPT !.tabs = Append(ed.tabs, loaded),
                                 !.pool = TakeID(pool1, loaded.id),
                                 !.calls = Append(ed.calls, Call("TakeID", loaded.id)),
                                 !.docked = Append(ed.docked, dock)]
                 ELSE [ed EXCEPT !.errors = ed.errors + 1,
                                 !.pool = TabDestroy(pool1, loaded),
                                 !.calls = Append(ed.calls, Call("TakeID", loaded.id))]

(* Editor::CreateNewScene *)
CreateNewScene(ed, project, fresh) ==
    LET id == IF project.null THEN fresh ELSE NullID
        pool1 == IF project.null THEN NewID(ed.pool, fresh) ELSE ed.pool
        dock == IF ed.tabs = <<>>
                THEN Dock("Hierarchy", "Slot_Right")
                ELSE Dock(UniqueTitle(Back(ed.tabs)), "Slot_Tab")
        sceneTab == SceneTabNew(id, dock.after, dock.position)
    IN  IF project.null
        THEN [ed EXCEPT !.tabs = Append(ed.tabs, sceneTab), !.pool = pool1,
                        !.calls = Append(ed.calls, Call("NewID", fresh)),
                        !.docked = Append(ed.docked, dock)]
        ELSE LET loaded == TabLoadProject(sceneTab, project)
             IN  IF CanTakeID(pool1, loaded.id)
                 THEN [ed EXCEPT !.tabs = Append(ed.tabs, loaded),
                                 !.pool = TakeID(pool1, loaded.id),
                                 !.calls = Append(ed.calls, Call("TakeID", loaded.id)),
                                 !.docked = Append(ed.docked, dock)]
                 ELSE [ed EXCEPT !.errors = ed.errors + 1,
                                 !.pool = TabDestroy(pool1, loaded),
                                 !.calls = Append(ed.calls, Call("TakeID", loaded.id))]

RECURSIVE RestoreScenes(_, _)
RestoreScenes(ed, scenes) ==
    IF scenes = <<>> THEN ed
    ELSE RestoreScenes(CreateNewScene(ed, Head(scenes), NullID), Tail(scenes))

(* LoadProject clearing the pool before it knows that the file can be read *)
LoadProjectClearsFirst(ed, filePath, content) ==
    IF filePath = "" THEN ed
    ELSE IF ~content.exists THEN [ed EXCEPT !.pool = ClearPool(ed.pool)]
    ELSE LET cleared == ClearPool(ed.pool)
             emptied == [ed EXCEPT !.pool = DestroyAll(cleared, ed.tabs),
                                   !.tabs = <<>>,
                                   !.active = WeakAfterClear(ed.active)]
         IN  RestoreScenes(emptied, content.scenes)

(* LoadProject clearing the pool after the registry *)
LoadProjectClearsPoolLate(ed, filePath, content) ==
    IF filePath = "" \/ ~content.exists THEN ed
    ELSE LET emptied == [ed EXCEPT !.pool = ClearPool(DestroyAll(ed.pool, ed.tabs)),
                                   !.tabs = <<>>,
                                   !.active = WeakAfterClear(ed.active),
                                   !.calls = ed.calls \o <<Call("sceneTabs_.Clear", NullID),
                                                           Call("idPool_.Clear", NullID)>>]
         IN  RestoreScenes(emptied, content.scenes)

(* Editor::LoadProject *)
LoadProject(ed, filePath, content) ==
    IF filePath = "" \/ ~content.exists THEN ed
    ELSE LET cleared == ClearPool(ed.pool)
             emptied == [ed EXCEPT !.pool = DestroyAll(cleared, ed.tabs),
                                   !.tabs = <<>>,
                                   !.active = WeakAfterClear(ed.active),
                                   !.calls = ed.calls \o <<Call("idPool_.Clear", NullID),
                                                           Call("sceneTabs_.Clear", NullID)>>]
         IN  RestoreScenes(emptied, content.scenes)

LoadReads(filePath, content) == filePath # "" /\ content.exists

(* Editor::SaveProject: the document written to filePath *)
ProjectDocument(tabs) == FileOf([i \in 1..Len(tabs) |-> TabSaveProject(tabs[i])])

(* Arbitrate without the branch of line 202: a focused tab never displaces a focused one *)
ArbitrateFirstFocusedWins(tab, renderedWasActive) ==
    IF tab.isRendered /\ ~renderedWasActive
    THEN [take |-> TRUE, renderedWasActive |-> tab.isActive]
    ELSE [take |-> FALSE, renderedWasActive |-> renderedWasActive]

(* Arbitrate with a plain else at line 204: every rendered tab displaces the one before *)
ArbitrateLastRenderedWins(tab, renderedWasActive) ==
    IF tab.isRendered
    THEN [take |-> TRUE, renderedWasActive |-> renderedWasActive \/ tab.isActive]
    ELSE [take |-> FALSE, renderedWasActive |-> renderedWasActive]

(* Arbitrate without the IsRendered test of line 199 *)
ArbitrateIgnoresRendered(tab, renderedWasActive) ==
    IF renderedWasActive /\ tab.isActive
    THEN [take |-> TRUE, renderedWasActive |-> renderedWasActive]
    ELSE IF ~renderedWasActive
         THEN [take |-> TRUE, renderedWasActive |-> tab.isActive]
         ELSE [take |-> FALSE, renderedWasActive |-> renderedWasActive]

(* Editor::OnUpdate, lines 199-209: does this tab become activeTab_, and the new renderedWasActive *)
Arbitrate(tab, renderedWasActive) ==
    IF tab.isRendered
    THEN IF renderedWasActive /\ tab.isActive
         THEN [take |-> TRUE, renderedWasActive |-> renderedWasActive]
         ELSE IF ~renderedWasActive
              THEN [take |-> TRUE, renderedWasActive |-> tab.isActive]
              ELSE [take |-> FALSE, renderedWasActive |-> renderedWasActive]
    ELSE [take |-> FALSE, renderedWasActive |-> renderedWasActive]

(* EraseTab with the tab kept alive by another reference: its destructor does not run *)
EraseTabKeepsAlive(ed, it) ==
    [ed EXCEPT !.tabs = RemoveAt(ed.tabs, it),
               !.active = WeakAfterErase(ed.active, it)]

(* Editor::OnUpdate, line 214: sceneTabs_.Erase(it) drops the last reference to the tab *)
EraseTab(ed, it) ==
    [ed EXCEPT !.tabs = RemoveAt(ed.tabs, it),
               !.active = WeakAfterErase(ed.active, it),
               !.pool = TabDestroy(ed.pool, ed.tabs[it])]

(* The pass with ++it in place of the Erase of line 214: a closed tab stays *)
RECURSIVE RenderTabsKeepsClosed(_, _, _, _)
RenderTabsKeepsClosed(ed, it, renderedWasActive, outcomes) ==
    IF it > Len(ed.tabs) THEN ed
    ELSE LET tab == RenderWindow(ed.tabs[it], Head(outcomes))
         IN  IF Head(outcomes).open
             THEN LET arb == Arbitrate(tab, renderedWasActive)
                  IN  RenderTabsKeepsClosed([ed EXCEPT !.tabs[it] = tab,
                                            !.active = IF arb.take THEN it ELSE ed.active],
                                 it + 1, arb.renderedWasActive, Tail(outcomes))
             ELSE RenderTabsKeepsClosed([ed EXCEPT !.tabs[it] = tab], it + 1,
                                        renderedWasActive, Tail(outcomes))

(* The pass with ++it after the Erase of line 214: the tab after a closed one is skipped *)
RECURSIVE RenderTabsSkipsAfterErase(_, _, _, _)
RenderTabsSkipsAfterErase(ed, it, renderedWasActive, outcomes) ==
    IF it > Len(ed.tabs) THEN ed
    ELSE LET tab == RenderWindow(ed.tabs[it], Head(outcomes))
             called == [ed EXCEPT !.calls = Append(ed.calls, Call("RenderWindow", tab.id))]
         IN  IF Head(outcomes).open
             THEN LET arb == Arbitrate(tab, renderedWasActive)
                  IN  RenderTabsSkipsAfterErase(
                                 [called EXCEPT !.tabs[it] = tab,
                                            !.active = IF arb.take THEN it ELSE ed.active],
                                 it + 1, arb.renderedWasActive, Tail(outcomes))
             ELSE RenderTabsSkipsAfterErase(EraseTab(called, it), it + 1, renderedWasActive,
                                 IF Len(outcomes) >= 2 THEN Tail(Tail(outcomes)) ELSE <<>>)

(* Editor::OnUpdate, lines 193-215: the pass over sceneTabs_; outcomes holds what  *)
(* RenderWindow will report for the tabs not yet visited, it is the iterator       *)
RECURSIVE RenderTabs(_, _, _, _)
RenderTabs(ed, it, renderedWasActive, outcomes) ==
    IF it > Len(ed.tabs) THEN ed
    ELSE LET tab == RenderWindow(ed.tabs[it], Head(outcomes))
             called == [ed EXCEPT !.calls = Append(ed.calls, Call("RenderWindow", tab.id))]
         IN  IF Head(outcomes).open
             THEN LET arb == Arbitrate(tab, renderedWasActive)
                  IN  RenderTabs([called EXCEPT !.tabs[it] = tab,
                                            !.active = IF arb.take THEN it ELSE ed.active],
                                 it + 1, arb.renderedWasActive, Tail(outcomes))
             ELSE RenderTabs(EraseTab(called, it), it, renderedWasActive, Tail(outcomes))

----------------------------------------------------------------------------
(* State machine *)

Paths == {"", "proj"}

Init ==
    /\ sceneTabs_ = <<>>
    /\ activeTab_ = 0
    /\ idPool_ = {}
    /\ projectFilePath_ = ""
    /\ disk = NoFile
    /\ pc = "start"
    /\ lastOp = "init"
    /\ opened = <<>>
    /\ logged = 0
    /\ calls = <<>>
    /\ docked = <<>>
    /\ lastCreated = ""

Install(ed) ==
    /\ sceneTabs_' = ed.tabs
    /\ activeTab_' = ed.active
    /\ idPool_' = ed.pool
    /\ logged' = ed.errors
    /\ calls' = ed.calls
    /\ docked' = ed.docked
    /\ lastCreated' = IF ed.docked = <<>> THEN lastCreated ELSE UniqueTitle(Back(ed.tabs))

(* Editor::Start, line 102: sceneTabs_.Front()->ClearCachedPaths() *)
Front(ed) == [ed EXCEPT !.calls = Append(ed.calls, Call("Front", NullID))]

(* Editor::Start, lines 100-102; Front() of an empty vector is undefined: the *)
(* process either dies there or goes on                                        *)
StartWith(content) ==
    /\ pc = "start"
    /\ LET ed == Front(LoadProject(Current, "Etc/DefaultEditorProject.xml", content))
       IN  /\ Install(ed)
           /\ IF ed.tabs = <<>> THEN pc' \in {"crashed", "menu"} ELSE pc' = "menu"
    /\ lastOp' = IF content.exists THEN "load" ELSE "load_noop"
    /\ UNCHANGED <<projectFilePath_, disk, opened>>

Start == \E content \in Contents : StartWith(content)

(* Editor::RenderMenuBar, lines 274-284: the toolbar of the active tab *)
Toolbar(ed) ==
    IF WeakExpired(ed.active) THEN ed
    ELSE [ed EXCEPT !.calls = Append(ed.calls,
                                     Call("RenderGizmoButtons", ed.tabs[ed.active].id))]

(* Editor::RenderMenuBar with nothing clicked *)
MenuIdle ==
    /\ pc = "menu"
    /\ pc' = "hierarchy"
    /\ lastOp' = "menu_idle"
    /\ Install(Toolbar(Current))
    /\ UNCHANGED <<projectFilePath_, disk, opened>>

(* Save Project As with the dialog cancelled still writing to the path it had *)
MenuSaveToKeepsOldPath(saveAs, picked, written) ==
    /\ pc = "menu"
    /\ LET path0 == IF saveAs THEN "" ELSE projectFilePath_
           path1 == IF path0 = "" THEN picked ELSE path0
           target == IF path1 = "" THEN projectFilePath_ ELSE path1
       IN  /\ projectFilePath_' = path1
           /\ disk' = IF target = "proj" /\ written THEN ProjectDocument(sceneTabs_) ELSE disk
           /\ lastOp' = IF path1 = "" THEN "save_noop"
                        ELSE IF written THEN "save" ELSE "save_failed"
    /\ pc' = "hierarchy"
    /\ Install(Toolbar(Current))
    /\ UNCHANGED opened

(* Editor::RenderMenuBar, lines 247-252 and 289-299, with Editor::SaveProject *)
MenuSaveTo(saveAs, picked, written) ==
    /\ pc = "menu"
    /\ LET path0 == IF saveAs THEN "" ELSE projectFilePath_
           path1 == IF path0 = "" THEN picked ELSE path0
       IN  /\ projectFilePath_' = path1
           /\ disk' = IF path1 = "proj" /\ written THEN ProjectDocument(sceneTabs_) ELSE disk
           /\ lastOp' = IF path1 = "" THEN "save_noop"
                        ELSE IF written THEN "save" ELSE "save_failed"
    /\ pc' = "hierarchy"
    /\ Install(Toolbar(Current))
    /\ UNCHANGED opened

MenuSave == \E saveAs \in BOOLEAN, picked \in Paths, written \in BOOLEAN :
                MenuSaveTo(saveAs, picked, written)

(* Editor::RenderMenuBar, lines 254-259: Open Project *)
MenuOpenProject(picked, content) ==
    /\ pc = "menu"
    /\ picked = "proj" => content = disk
    /\ picked = "" => content = NoFile
    /\ projectFilePath_' = picked
    /\ Install(Toolbar(LoadProject(Current, picked, content)))
    /\ lastOp' = IF LoadReads(picked, content) THEN "load" ELSE "load_noop"
    /\ pc' = "hierarchy"
    /\ UNCHANGED <<disk, opened>>

MenuOpen == \E picked \in Paths, content \in Contents : MenuOpenProject(picked, content)

(* Editor::RenderMenuBar, lines 263-264: New Scene *)
MenuNewScene ==
    /\ pc = "menu"
    /\ Len(sceneTabs_) < MaxTabs
    /\ \E fresh \in Ids \ idPool_ :
           Install(Toolbar(CreateNewScene(Current, NullElement, fresh)))
    /\ lastOp' = "new"
    /\ pc' = "hierarchy"
    /\ UNCHANGED <<projectFilePath_, disk, opened>>

(* The hierarchy panel testing Null() where line 188 tests Expired() *)
HierarchyTestsNull ==
    /\ pc = "hierarchy"
    /\ pc' = "tabs"
    /\ lastOp' = IF WeakNull(activeTab_) THEN "hierarchy_empty" ELSE "hierarchy_of_tab"
    /\ Install(Current)
    /\ UNCHANGED <<projectFilePath_, disk, opened>>

(* Editor::OnUpdate, lines 185-191: the hierarchy panel *)
Hierarchy ==
    /\ pc = "hierarchy"
    /\ pc' = "tabs"
    /\ lastOp' = IF WeakExpired(activeTab_) THEN "hierarchy_empty" ELSE "hierarchy_of_tab"
    /\ Install(Current)
    /\ UNCHANGED <<projectFilePath_, disk, opened>>

(* The pass with activeTab_ reset before the loop *)
RunFrameWithReset(outcomes) ==
    /\ pc = "tabs"
    /\ Install(RenderTabs([Current EXCEPT !.active = 0], 1, FALSE, outcomes))
    /\ opened' = [i \in 1..Len(outcomes) |-> outcomes[i].open]
    /\ lastOp' = "frame"
    /\ pc' = "inspector"
    /\ UNCHANGED <<projectFilePath_, disk>>

(* Editor::OnUpdate, lines 193-215: the pass over the scene tabs *)
RunFrameWith(outcomes) ==
    /\ pc = "tabs"
    /\ Install(RenderTabs(Current, 1, FALSE, outcomes))
    /\ opened' = [i \in 1..Len(outcomes) |-> outcomes[i].open]
    /\ lastOp' = "frame"
    /\ pc' = "inspector"
    /\ UNCHANGED <<projectFilePath_, disk>>

RunFrame == \E outcomes \in [1..Len(sceneTabs_) -> Outcomes] : RunFrameWith(outcomes)

(* Editor::OnUpdate, lines 218-225: the inspector panel *)
Inspector ==
    /\ pc = "inspector"
    /\ pc' = "browser"
    /\ lastOp' = IF WeakExpired(activeTab_) THEN "inspector_empty" ELSE "inspector_of_tab"
    /\ opened' = <<>>
    /\ Install(Current)
    /\ UNCHANGED <<projectFilePath_, disk>>

(* Editor::OnUpdate, lines 227-237: the resource browser, nothing opened *)
BrowserIdle ==
    /\ pc = "browser"
    /\ pc' = "menu"
    /\ lastOp' = "browser_idle"
    /\ Install(Current)
    /\ UNCHANGED <<projectFilePath_, disk, opened>>

(* Editor::OnUpdate, lines 230-236: a scene resource opened from the browser *)
BrowserOpenScene ==
    /\ pc = "browser"
    /\ Len(sceneTabs_) < MaxTabs
    /\ \E fresh \in Ids \ idPool_ : Install(CreateNewScene(Current, NullElement, fresh))
    /\ lastOp' = "new"
    /\ pc' = "menu"
    /\ UNCHANGED <<projectFilePath_, disk, opened>>

(* Editor::IsActive(scene), called between two frames; scene is 0 for nullptr and  *)
(* i for the scene of sceneTabs_[i]. Line 337 dereferences activeTab_ whenever it  *)
(* is not Null(): through an expired reference that is undefined, the process dies *)
(* or goes on with either answer                                                    *)
IsActiveOf(scene, answer) ==
    /\ pc = "menu"
    /\ IF scene = 0 \/ WeakNull(activeTab_)
       THEN /\ lastOp' = "isactive_early"
            /\ answer = FALSE
            /\ pc' = pc
       ELSE /\ lastOp' = "isactive_deref"
            /\ IF activeTab_ \in 1..Len(sceneTabs_)
               THEN /\ answer = (activeTab_ = scene /\ sceneTabs_[activeTab_].isActive)
                    /\ pc' = pc
               ELSE pc' \in {"crashed", pc}
    /\ calls' = <<Call(IF answer THEN "IsActive.true" ELSE "IsActive.false", NullID)>>
    /\ logged' = 0
    /\ docked' = <<>>
    /\ UNCHANGED <<sceneTabs_, activeTab_, idPool_, projectFilePath_, disk, opened, lastCreated>>

IsActive == \E scene \in 0..Len(sceneTabs_), answer \in BOOLEAN : IsActiveOf(scene, answer)

Next ==
    \/ Start
    \/ MenuIdle
    \/ MenuSave
    \/ MenuOpen
    \/ MenuNewScene
    \/ Hierarchy
    \/ RunFrame
    \/ Inspector
    \/ BrowserIdle
    \/ BrowserOpenScene
    \/ IsActive

Spec == Init /\ [][Next]_vars

----------------------------------------------------------------------------
(* Properties *)

TabIndices == 1..Len(sceneTabs_)

Blocks(tabs) == [i \in 1..Len(tabs) |-> [id |-> tabs[i].id, title |-> tabs[i].title]]

BlocksOfFile(scenes) == [i \in 1..Len(scenes) |-> [id |-> scenes[i].id, title |-> scenes[i].title]]

RECURSIVE KeepOpen(_, _)
KeepOpen(tabs, results) ==
    IF tabs = <<>> THEN <<>>
    ELSE IF Head(results) THEN <<Head(tabs)>> \o KeepOpen(Tail(tabs), Tail(results))
         ELSE KeepOpen(Tail(tabs), Tail(results))

RECURSIVE FirstOccurrences(_, _)
FirstOccurrences(scenes, seen) ==
    IF scenes = <<>> THEN <<>>
    ELSE IF Head(scenes).id \in seen THEN FirstOccurrences(Tail(scenes), seen)
         ELSE <<Head(scenes)>> \o FirstOccurrences(Tail(scenes), seen \cup {Head(scenes).id})

RECURSIVE IsSubSeq(_, _)
IsSubSeq(s, t) ==
    IF s = <<>> THEN TRUE
    ELSE IF t = <<>> THEN FALSE
         ELSE IF Head(s) = Head(t) THEN IsSubSeq(Tail(s), Tail(t))
              ELSE IsSubSeq(s, Tail(t))

AfterRunFrame == pc = "inspector"

RenderedTabs == {i \in TabIndices : sceneTabs_[i].isRendered}

FocusedTabs == {i \in TabIndices : sceneTabs_[i].isRendered /\ sceneTabs_[i].isActive}

First(S) == CHOOSE i \in S : \A j \in S : i <= j

Last(S) == CHOOSE i \in S : \A j \in S : j <= i

\* C1: no two sessions that are in the registry at the same time have the same
\* identifier, after any sequence of creations, project loads and closes.
C1_UniqueIdentifiers ==
    \A i, j \in TabIndices : i # j => sceneTabs_[i].id # sceneTabs_[j].id

\* C2 (as stated): when two or more rendered sessions report focus in a frame, the
\* active session after the pass is the first of them in registry order.
C2_FirstFocusedWins ==
    (AfterRunFrame /\ Cardinality(FocusedTabs) >= 2) => activeTab_ = First(FocusedTabs)

\* C2 (amended): when two or more rendered sessions report focus in a frame, the
\* active session after the pass is the last of them in registry order.
C2_LastFocusedWins ==
    (AfterRunFrame /\ Cardinality(FocusedTabs) >= 2) => activeTab_ = Last(FocusedTabs)

C2_Witness ==
    /\ AfterRunFrame
    /\ Len(sceneTabs_) = 3
    /\ FocusedTabs = {1, 2}
    /\ sceneTabs_[3].isRendered
    /\ activeTab_ = 2

\* C3: when exactly one session reports focus in a frame, the active session after
\* the pass is that session, wherever it stands and whatever is visible around it.
C3_OnlyFocusedIsActive ==
    (AfterRunFrame /\ Cardinality(FocusedTabs) = 1) => activeTab_ = First(FocusedTabs)

C3_Witness ==
    /\ AfterRunFrame
    /\ Len(sceneTabs_) = 3
    /\ FocusedTabs = {2}
    /\ RenderedTabs = {1, 2, 3}
    /\ activeTab_ = 2

\* C4 (as stated): after a pass, an active session is both rendered and focused.
C4_ActiveIsFocused ==
    (AfterRunFrame /\ activeTab_ > 0) =>
        sceneTabs_[activeTab_].isRendered /\ sceneTabs_[activeTab_].isActive

\* C4 (amended): the active reference names at most one session of the registry;
\* after a pass in which some remaining session was rendered, the active session is
\* a rendered one, and it is focused whenever some rendered session is focused (a
\* session that is only visible is the active one when no rendered session is focused).
C4_ActiveIsRenderedAndFocusedIfAny ==
    /\ activeTab_ \in -1..Len(sceneTabs_)
    /\ (AfterRunFrame /\ RenderedTabs # {}) =>
          /\ activeTab_ \in RenderedTabs
          /\ FocusedTabs # {} => activeTab_ \in FocusedTabs

C4_Witness ==
    /\ AfterRunFrame
    /\ Len(sceneTabs_) = 2
    /\ RenderedTabs = {1, 2}
    /\ FocusedTabs = {}
    /\ activeTab_ = 2

\* C5: the pass removes exactly the sessions whose RenderWindow returned false; the
\* sessions whose RenderWindow returned true stay, with their identifiers, in order.
C5_ClosedTabsRemoved ==
    [][(pc = "tabs" /\ pc' = "inspector") =>
          Blocks(sceneTabs_') = Blocks(KeepOpen(sceneTabs_, opened'))]_vars

C5_Witness ==
    /\ AfterRunFrame
    /\ opened = <<TRUE, FALSE, TRUE>>
    /\ Len(sceneTabs_) = 2
    /\ sceneTabs_[1].id # sceneTabs_[2].id

\* C6: the identifier of a session removed by the pass is not held by the pool
\* when the pass ends, so NewID may return it and TakeID of it succeeds.
C6_RemovedIdReclaimed ==
    [][(pc = "tabs" /\ pc' = "inspector") =>
          \A i \in TabIndices : ~opened'[i] => CanTakeID(idPool_', sceneTabs_[i].id)]_vars

C6_Witness ==
    /\ AfterRunFrame
    /\ opened = <<TRUE, FALSE>>
    /\ Len(sceneTabs_) = 1
    /\ Cardinality(idPool_) = 1
    /\ sceneTabs_[1].id \in idPool_

\* C7: a load restores, in document order, exactly the first block of each
\* identifier; every other block adds no session and logs one conflict.
C7_FirstOccurrencesRestored ==
    [][\A content \in Contents :
          (content.exists /\ (StartWith(content) \/ MenuOpenProject("proj", content))) =>
              /\ Blocks(sceneTabs_') = BlocksOfFile(FirstOccurrences(content.scenes, {}))
              /\ logged' = Len(content.scenes) - Len(sceneTabs_')]_vars

\* C8: loading the project that was saved from the registry gives back the saved
\* sessions: the same identifiers and titles in the same order.
C8_RoundTrip ==
    (pc = "hierarchy" /\ lastOp = "load") => BlocksOfFile(disk.scenes) = Blocks(sceneTabs_)

\* C9: a load with an empty path or a file that cannot be read changes neither the
\* registry, nor the pool, nor the active session.
C9_FailedLoadIsNoOp ==
    [][lastOp' = "load_noop" => UNCHANGED <<sceneTabs_, activeTab_, idPool_>>]_vars

C9_Witness ==
    /\ lastOp = "load_noop"
    /\ pc = "hierarchy"
    /\ Len(sceneTabs_) = 2
    /\ activeTab_ > 0
    /\ idPool_ # {}

InFrame == pc \in {"menu", "hierarchy", "tabs", "inspector", "browser"}

RemovedByPass == pc = "tabs" /\ Blocks(sceneTabs_') = Blocks(KeepOpen(sceneTabs_, opened'))

AppendedOne ==
    /\ pc \in {"menu", "browser"}
    /\ Len(sceneTabs_') = Len(sceneTabs_) + 1
    /\ SubSeq(sceneTabs_', 1, Len(sceneTabs_)) = sceneTabs_

ReplacedByOpenProject ==
    /\ pc = "menu"
    /\ lastOp' = "load"
    /\ IsSubSeq(Blocks(sceneTabs_'), BlocksOfFile(disk.scenes))

\* C10 (as stated): within a frame the registry's sequence changes only by the
\* pass removing closed sessions or by one session being appended.
C10_OnlyRemovalOrAppend ==
    [][InFrame => (sceneTabs_' = sceneTabs_ \/ RemovedByPass \/ AppendedOne)]_vars

\* C10 (amended): within a frame the registry's sequence changes only by the pass
\* removing closed sessions, by one session being appended, or by the menu's
\* Open Project, which replaces the sessions by those restored from the file.
C10_RemovalAppendOrOpenProject ==
    [][InFrame => (sceneTabs_' = sceneTabs_ \/ RemovedByPass \/ AppendedOne
                   \/ ReplacedByOpenProject)]_vars

C10_Witness ==
    /\ pc = "hierarchy"
    /\ lastOp = "load"
    /\ Len(sceneTabs_) = 2
    /\ Len(disk.scenes) = 2

(* The active tab an arbitration pass leaves when it takes none: the one it had,  *)
(* followed through the erasures of the pass                                       *)
CarriedOver ==
    IF activeTab_ <= 0 THEN activeTab_
    ELSE IF ~opened'[activeTab_] THEN -1
    ELSE activeTab_ - Cardinality({i \in 1..activeTab_ : ~opened'[i]})

\* C11 (as stated): after a pass in which no session was rendered there is no active
\* session; the active session of an earlier frame does not carry over.
C11_NoCarryOver == (AfterRunFrame /\ RenderedTabs = {}) => activeTab_ <= 0

\* C11 (amended): after a pass the active session is the one the pass chose (the last
\* focused rendered session, or the last rendered one when none is focused); when the
\* pass rendered no session, the active session of the earlier frame carries over if
\* it survived the pass and is expired otherwise.
C11_ChosenOrCarriedOver ==
    [][(pc = "tabs" /\ pc' = "inspector") =>
          IF RenderedTabs' = {} THEN activeTab_' = CarriedOver
          ELSE IF FocusedTabs' # {} THEN activeTab_' = Last(FocusedTabs')
          ELSE activeTab_' = Last(RenderedTabs')]_vars

C11_Witness ==
    /\ AfterRunFrame /\ Len(sceneTabs_) = 2 /\ RenderedTabs = {}
    /\ opened = <<FALSE, TRUE, TRUE>> /\ activeTab_ = 2

\* C12: a save with an empty path does no I/O and changes nothing: the registry, the
\* pool, the active session and the project file are as they were.
C12_EmptyPathSaveIsNoOp ==
    [][lastOp' = "save_noop" => UNCHANGED <<sceneTabs_, activeTab_, idPool_, disk>>]_vars

C12_Witness ==
    /\ lastOp = "save_noop" /\ pc = "hierarchy" /\ projectFilePath_ = ""
    /\ Len(sceneTabs_) = 2 /\ disk # ProjectDocument(sceneTabs_)

PoolClears == {i \in DOMAIN calls : calls[i].op = "idPool_.Clear"}

\* C13: a load that reads its file clears the pool exactly once, before it clears the
\* registry and before it reserves the first restored identifier.
C13_PoolClearedOnceFirst ==
    lastOp = "load" =>
        /\ Cardinality(PoolClears) = 1
        /\ \A i \in DOMAIN calls :
               calls[i].op \in {"sceneTabs_.Clear", "TakeID"} => \E j \in PoolClears : j < i

C13_Witness ==
    /\ lastOp = "load" /\ pc = "hierarchy" /\ Len(calls) = 5
    /\ calls[2].op = "sceneTabs_.Clear" /\ calls[5].op = "TakeID" /\ logged = 1

\* C14 (as stated): a session created from the menu or the browser is docked to
\* "Hierarchy" when it is the first one and otherwise next to the session created
\* before it, whatever was closed in between.
C14_DockedAfterPreviouslyCreated ==
    [][lastOp' = "new" =>
          docked'[1].after = IF sceneTabs_ = <<>> THEN "Hierarchy" ELSE lastCreated]_vars

\* C14 (amended): a new session is docked to the right of "Hierarchy" when the registry
\* is empty and otherwise as a tab of the session that is last in the registry.
C14_DockedAfterBack ==
    \A k \in DOMAIN docked :
        LET p == Len(sceneTabs_) - Len(docked) + k
        IN  /\ p >= 1
            /\ docked[k] = IF p = 1 THEN Dock("Hierarchy", "Slot_Right")
                           ELSE Dock(UniqueTitle(sceneTabs_[p - 1]), "Slot_Tab")

C14_Witness ==
    /\ lastOp = "new" /\ Len(sceneTabs_) = 3 /\ Len(docked) = 1
    /\ docked[1].after = UniqueTitle(sceneTabs_[2])
    /\ sceneTabs_[2].id # sceneTabs_[1].id

\* C15: one pass calls RenderWindow exactly once on every session that was in the
\* registry when it started, in registry order, also when it removes sessions.
C15_EachRenderedOnceInOrder ==
    [][(pc = "tabs" /\ pc' = "inspector") =>
          calls' = [i \in 1..Len(sceneTabs_) |-> Call("RenderWindow", sceneTabs_[i].id)]]_vars

C15_Witness ==
    /\ AfterRunFrame /\ opened = <<FALSE, TRUE, FALSE>> /\ Len(calls) = 3
    /\ calls[1].id # calls[2].id /\ calls[2].id # calls[3].id /\ calls[1].id # calls[3].id
    /\ sceneTabs_[1].id = calls[2].id

\* C16: Editor::Start accesses the first session only when the registry is not empty.
C16_FrontOnlyWhenNonEmpty ==
    (\E i \in DOMAIN calls : calls[i].op = "Front") => sceneTabs_ # <<>>

\* C17: the active reference is empty, expired or refers to a session of the registry,
\* and the hierarchy, inspector and toolbar steps use it only when it refers to one.
C17_ActiveUsedOnlyWhenLive ==
    /\ activeTab_ \in -1..Len(sceneTabs_)
    /\ lastOp \in {"hierarchy_of_tab", "inspector_of_tab"} => activeTab_ \in TabIndices
    /\ \A i \in DOMAIN calls :
           calls[i].op = "RenderGizmoButtons" =>
               activeTab_ \in TabIndices /\ calls[i].id = sceneTabs_[activeTab_].id

C17_Witness ==
    /\ lastOp = "hierarchy_empty" /\ activeTab_ = -1 /\ Len(sceneTabs_) = 2 /\ calls = <<>>

\* C18: Editor::IsActive dereferences the active reference only when it refers to a
\* session of the registry.
C18_IsActiveDerefsLiveOnly == lastOp = "isactive_deref" => activeTab_ \in TabIndices

\* C19: right after a load that read its file, the pool holds exactly the identifiers
\* of the sessions in the registry.
C19_PoolHoldsRegistryIds ==
    lastOp = "load" => idPool_ = {sceneTabs_[i].id : i \in TabIndices}

====
